---- MODULE Spec2Model ----
(***************************************************************************)
(* examples/benchmarks.ipynb: the RandomITModel adapter (cell 4) and the   *)
(* custom benchmark MyBenchmark (cell 15), as a state machine.             *)
(*                                                                         *)
(* Every method is an operator that threads the objects it touches         *)
(* through a record: `self` (the receiver after the call), `raised` (the   *)
(* exception that left the method, or NoError), `log` (the calls and       *)
(* prints made so far, in order).  An action applies one method to the     *)
(* state and records the call in `last`.                                   *)
(***************************************************************************)
EXTENDS Integers, Sequences, FiniteSets

(* ---------------------------------------------------------------- bounds *)
\* image ids of the data store are 1..MaxImages
MaxImages == 3
\* the [:1000] of MyBenchmark.__init__, scaled down so that the cut happens
SubsetSize == 2
\* Score objects that may be allocated before the run is cut off
MaxScores == 6

(* ------------------------------------------------------- python's values *)
None == -1
NoError == "NoError"
TimeBinStartOfBenchmark == 100

NumNeurons == 50

\* one entry of a time_bins list: a numpy array or a plain tuple of ints
ndarray(vals) == [kind |-> "ndarray", vals |-> vals]
tuple(vals) == [kind |-> "tuple", vals |-> vals]

\* str(recording_target): a str is itself, any other object prints its repr
Str(x) ==
    IF x.type = "str" THEN x.value ELSE "<class 'BrainModel.RecordingTarget'>"

pystr(s) == [type |-> "str", value |-> s]

\* the default value of the parameter recording_target: the class itself
RecordingTargetClass == [type |-> "type", value |-> "RecordingTarget"]

\* one entry of a call log: the method, its receiver before the call, its
\* arguments, the exception that left it (or NoError) and what it returned
Ev(method, self, args, raised, result) ==
    [method |-> method, self |-> self, args |-> args, raised |-> raised,
     result |-> result]

(* ------------------------------------------------- numpy random numbers  *)
\* np.random.RandomState(seed): a generator whose state is decided by seed
RandomState(seed) == seed % 8

\* one draw advances the generator
NextRandom(g) == (5 * g + 3) % 8

RECURSIVE Advance(_, _)
\* the generator after k draws
Advance(g, k) == IF k = 0 THEN g ELSE NextRandom(Advance(g, k - 1))

\* rnd.rand(...) for n cells: the values drawn and the generator afterwards
\* (NextRandom has period 8, so k draws end where k % 8 draws end)
rand(g, n) ==
    [values |-> [i \in 1..n |-> Advance(g, (i - 1) % 8)], g |-> Advance(g, n % 8)]

(* --------------------------------------------------------- RandomITModel *)
\* RandomITModel.__init__
RandomITModel_init ==
    [_num_neurons |-> NumNeurons, _time_bin_start |-> None, _time_bin_end |-> None]

Column(stimuli, name) == [i \in 1..Len(stimuli) |-> stimuli[i][name]]

\* look_at drawing from numpy's process-wide generator instead of a fresh
\* RandomState(0)
look_at_global_generator(self, stimuli, np, log) ==
    LET drawn == rand(np, Len(stimuli) * self._num_neurons * 1)
        recordings ==
            [values |-> drawn.values,
             shape |-> <<Len(stimuli), self._num_neurons, 1>>,
             image_id |-> Column(stimuli, "image_id"),
             object_name |-> Column(stimuli, "object_name"),
             neuroid_id |-> [i \in 1..self._num_neurons |-> i - 1],
             region |-> [i \in 1..self._num_neurons |-> "IT"],
             time_bin_start |-> <<self._time_bin_start>>,
             time_bin_end |-> <<self._time_bin_end>>,
             name |-> "random_it_model"]
    IN [raised |-> NoError, self |-> self, np |-> drawn.g, result |-> recordings,
        log |-> Append(log, Ev("look_at", self, <<stimuli>>, NoError, <<recordings>>))]

\* RandomITModel.look_at(self, stimuli): np is numpy's process-wide generator
look_at(self, stimuli, np, log) ==
    LET rnd == RandomState(0)
        drawn == rand(rnd, Len(stimuli) * self._num_neurons * 1)
        recordings ==
            [values |-> drawn.values,
             shape |-> <<Len(stimuli), self._num_neurons, 1>>,
             image_id |-> Column(stimuli, "image_id"),
             object_name |-> Column(stimuli, "object_name"),
             neuroid_id |-> [i \in 1..self._num_neurons |-> i - 1],
             region |-> [i \in 1..self._num_neurons |-> "IT"],
             time_bin_start |-> <<self._time_bin_start>>,
             time_bin_end |-> <<self._time_bin_end>>,
             name |-> "random_it_model"]
    IN [raised |-> NoError, self |-> self, np |-> np, result |-> recordings,
        log |-> Append(log, Ev("look_at", self, <<stimuli>>, NoError, <<recordings>>))]

\* start_task without the check of the task
start_task_unchecked(self, task, log) ==
    [raised |-> NoError, self |-> self,
     log |-> Append(log, Ev("start_task", self, <<task>>, NoError, <<>>))]

\* RandomITModel.start_task(self, task)
start_task(self, task, log) ==
    LET leave(e) ==
            [raised |-> e, self |-> self,
             log |-> Append(log, Ev("start_task", self, <<task>>, e, <<>>))]
    IN IF task # "passive" THEN leave("NotImplementedError") ELSE leave(NoError)

\* ndarray.tolist(); a tuple has no such method
tolist(x) ==
    IF x.kind = "ndarray"
    THEN [raised |-> NoError, result |-> x.vals]
    ELSE [raised |-> "AttributeError", result |-> <<>>]

\* start_recording that refuses only an empty list of windows
start_recording_first_window(self, recording_target, time_bins, log) ==
    LET out(e) ==
            Append(log, Ev("start_recording", self, <<recording_target, time_bins>>, e, <<>>))
        fail(e) == [raised |-> e, self |-> self, log |-> out(e)]
    IN IF Str(recording_target) # "IT" THEN fail("NotImplementedError")
       ELSE IF Len(time_bins) < 1 THEN fail("NotImplementedError")
       ELSE LET l == tolist(time_bins[1])
            IN IF l.raised # NoError THEN fail(l.raised)
               ELSE IF Len(l.result) < 2 THEN fail("IndexError")
               ELSE [raised |-> NoError,
                     self |-> [self EXCEPT !._time_bin_start = l.result[1],
                                           !._time_bin_end = l.result[2]],
                     log |-> out(NoError)]

\* start_recording that stores the first window before it counts the windows
start_recording_store_first(self, recording_target, time_bins, log) ==
    LET out(e) ==
            Append(log, Ev("start_recording", self, <<recording_target, time_bins>>, e, <<>>))
        fail(e) == [raised |-> e, self |-> self, log |-> out(e)]
    IN IF Str(recording_target) # "IT" THEN fail("NotImplementedError")
       ELSE IF Len(time_bins) < 1 THEN fail("IndexError")
       ELSE LET l == tolist(time_bins[1])
            IN IF l.raised # NoError THEN fail(l.raised)
               ELSE IF Len(l.result) < 2 THEN fail("IndexError")
               ELSE LET stored == [self EXCEPT !._time_bin_start = l.result[1],
                                               !._time_bin_end = l.result[2]]
                    IN IF Len(time_bins) # 1
                       THEN [raised |-> "NotImplementedError", self |-> stored,
                             log |-> out("NotImplementedError")]
                       ELSE [raised |-> NoError, self |-> stored, log |-> out(NoError)]

\* start_recording that stores the start of the window as its end too
start_recording_start_twice(self, recording_target, time_bins, log) ==
    LET out(e) ==
            Append(log, Ev("start_recording", self, <<recording_target, time_bins>>, e, <<>>))
        fail(e) == [raised |-> e, self |-> self, log |-> out(e)]
    IN IF Str(recording_target) # "IT" THEN fail("NotImplementedError")
       ELSE IF Len(time_bins) # 1 THEN fail("NotImplementedError")
       ELSE LET l == tolist(time_bins[1])
            IN IF l.raised # NoError THEN fail(l.raised)
               ELSE IF Len(l.result) < 2 THEN fail("IndexError")
               ELSE [raised |-> NoError,
                     self |-> [self EXCEPT !._time_bin_start = l.result[1],
                                           !._time_bin_end = l.result[1]],
                     log |-> out(NoError)]

\* RandomITModel.start_recording(self, recording_target, time_bins)
start_recording(self, recording_target, time_bins, log) ==
    LET out(e) ==
            Append(log, Ev("start_recording", self, <<recording_target, time_bins>>, e, <<>>))
        fail(e) == [raised |-> e, self |-> self, log |-> out(e)]
    IN IF Str(recording_target) # "IT" THEN fail("NotImplementedError")
       ELSE IF Len(time_bins) # 1 THEN fail("NotImplementedError")
       ELSE LET l == tolist(time_bins[1])
            IN IF l.raised # NoError THEN fail(l.raised)
               ELSE IF Len(l.result) < 2 THEN fail("IndexError")
               ELSE [raised |-> NoError,
                     self |-> [self EXCEPT !._time_bin_start = l.result[1],
                                           !._time_bin_end = l.result[2]],
                     log |-> out(NoError)]

\* RandomITModel.visual_degrees(self)
visual_degrees(self, log) ==
    [raised |-> NoError, self |-> self, result |-> 8,
     log |-> Append(log, Ev("visual_degrees", self, <<>>, NoError, <<8>>))]

(* ----------------------------------------------- the brainscore library  *)
\* what the library's functions do to their arguments, as far as MyBenchmark
\* relies on it

RECURSIVE SortedSeq(_)
\* the elements of a finite set of integers in ascending order
SortedSeq(S) ==
    IF S = {} THEN <<>>
    ELSE LET m == CHOOSE x \in S : \A y \in S : x <= y
         IN <<m>> \o SortedSeq(S \ {m})

Range(seq) == {seq[i] : i \in 1..Len(seq)}

\* np.unique(values): the distinct values, sorted
unique(values) == SortedSeq(Range(values))

\* seq[:n]
Take(seq, n) == SubSeq(seq, 1, IF Len(seq) < n THEN Len(seq) ELSE n)

\* brainscore.get_assembly(identifier): the assembly the data store holds
get_assembly(store, log) ==
    [result |-> store,
     log |-> Append(log, Ev("get_assembly", <<>>, <<>>, NoError, <<>>))]

\* assembly.squeeze('time_bin'): drops a dimension of length 1
squeeze_assembly(assembly) ==
    IF Len(assembly.time_bin) # 1
    THEN [raised |-> "ValueError", result |-> assembly]
    ELSE [raised |-> NoError, result |-> [assembly EXCEPT !.dims = <<"presentation", "neuroid">>]]

\* predictions.squeeze('time_bin')
squeeze_recordings(recordings) ==
    [recordings EXCEPT !.shape = <<recordings.shape[1], recordings.shape[2]>>]

\* place_on_screen(stimulus_set, target_visual_degrees, source_visual_degrees):
\* the same stimuli, resized by the ratio of the two fields of view
place_on_screen(stimulus_set, target_visual_degrees, source_visual_degrees, log) ==
    [result |->
        [i \in 1..Len(stimulus_set) |->
            [stimulus_set[i] EXCEPT
                !.degrees = (stimulus_set[i].degrees * source_visual_degrees)
                                \div target_visual_degrees]],
     log |-> Append(log, Ev("place_on_screen", <<>>,
                            <<target_visual_degrees, source_visual_degrees>>, NoError, <<>>))]

\* average_repetition(assembly): one presentation per image, a new assembly
average_repetition(assembly, log) ==
    LET ids == unique(Column(assembly.presentation, "image_id"))
        first(id) == CHOOSE i \in 1..Len(assembly.presentation) :
                         /\ assembly.presentation[i].image_id = id
                         /\ \A j \in 1..(i - 1) : assembly.presentation[j].image_id # id
    IN [result |->
            [assembly EXCEPT !.presentation =
                [k \in 1..Len(ids) |->
                    [assembly.presentation[first(ids[k])] EXCEPT !.repetition = None]]],
        log |-> Append(log, Ev("average_repetition", <<>>, <<>>, NoError, <<>>))]

\* a Score object: `id` is its identity, attrs are `raw` and `ceiling`
Score(id, kind, raw, ceiling) ==
    [id |-> id, kind |-> kind, raw |-> raw, ceiling |-> ceiling]

\* CrossRegressedCorrelation.__call__(source, target): a new Score
similarity_metric(source, target, heap, log) ==
    LET score == Score(heap + 1, "unceiled", <<>>, <<>>)
    IN [result |-> score, heap |-> heap + 1,
        log |-> Append(log, Ev("similarity_metric", <<>>,
                               <<source.image_id, Column(target.presentation, "image_id")>>,
                               NoError, <<score>>))]

\* InternalConsistency.__call__(assembly): a new Score
_ceiler(assembly, heap, log) ==
    LET score == Score(heap + 1, "ceiling", <<>>, <<>>)
    IN [result |-> score, heap |-> heap + 1,
        log |-> Append(log, Ev("_ceiler", <<>>, <<>>, NoError, <<score>>))]

\* explained_variance(score, ceiling): a new Score with raw and ceiling attached
explained_variance(score, ceiling, heap, log) ==
    LET ceiled == Score(heap + 1, "ceiled", <<score.id>>, <<ceiling.id>>)
    IN [result |-> ceiled, heap |-> heap + 1,
        log |-> Append(log, Ev("explained_variance", <<>>, <<score.id, ceiling.id>>,
                               NoError, <<ceiled>>))]

(* ------------------------------------------------------------ MyBenchmark *)
\* __init__ that attaches the stimulus set without filtering it
MyBenchmark_init_whole_stimulus_set(store, log) ==
    LET loaded == get_assembly(store, log)
        assembly0 == loaded.result
        assembly1 ==
            [assembly0 EXCEPT !.time_bin =
                SelectSeq(assembly0.time_bin, LAMBDA b : b[1] = TimeBinStartOfBenchmark)]
        image_ids == Take(unique(Column(assembly1.presentation, "image_id")), SubsetSize)
        assembly2 ==
            [assembly1 EXCEPT !.presentation =
                SelectSeq(assembly1.presentation, LAMBDA p : p.image_id \in Range(image_ids))]
        squeezed == squeeze_assembly(assembly2)
    IN [raised |-> squeezed.raised,
        self |-> [_assembly |-> squeezed.result,
                  _similarity_metric |->
                      [regression |-> "pls", correlation |-> "pearsonr", splits |-> 3,
                       stratification_coord |-> "object_name"],
                  _ceiler |-> "InternalConsistency"],
        log |-> loaded.log]

\* MyBenchmark.__init__(self), reading the data store
MyBenchmark_init(store, log) ==
    LET loaded == get_assembly(store, log)
        assembly0 == loaded.result
        assembly1 ==
            [assembly0 EXCEPT !.time_bin =
                SelectSeq(assembly0.time_bin, LAMBDA b : b[1] = TimeBinStartOfBenchmark)]
        image_ids == Take(unique(Column(assembly1.presentation, "image_id")), SubsetSize)
        assembly2 ==
            [assembly1 EXCEPT !.presentation =
                SelectSeq(assembly1.presentation, LAMBDA p : p.image_id \in Range(image_ids))]
        stimulus_set ==
            SelectSeq(assembly2.stimulus_set, LAMBDA s : s.image_id \in Range(image_ids))
        assembly3 == [assembly2 EXCEPT !.stimulus_set = stimulus_set]
        squeezed == squeeze_assembly(assembly3)
    IN [raised |-> squeezed.raised,
        self |-> [_assembly |-> squeezed.result,
                  _similarity_metric |->
                      [regression |-> "pls", correlation |-> "pearsonr", splits |-> 3,
                       stratification_coord |-> "object_name"],
                  _ceiler |-> "InternalConsistency"],
        log |-> loaded.log]

\* MyBenchmark.identifier
identifier(self) == "my-dummy-benchmark"

\* MyBenchmark.ceiling (a property): every access runs the estimator
ceiling(self, heap, log) ==
    LET printed == Append(log, Ev("ceiling", <<>>, <<>>, NoError, <<>>))
        c == _ceiler(self._assembly, heap, printed)
    IN [raised |-> NoError, self |-> self, result |-> c.result, heap |-> c.heap,
        log |-> c.log]

\* candidate.start_task(...): the candidate is any BrainModel; one that is not
\* a plain RandomITModel may refuse the task
candidate_start_task(candidate, self, task, log) ==
    IF candidate.class = "RandomITModel" \/ candidate.task_ok
    THEN start_task(self, task, log)
    ELSE [raised |-> "NotImplementedError", self |-> self,
          log |-> Append(log, Ev("start_task", self, <<task>>, "NotImplementedError", <<>>))]

\* candidate.start_recording(...), likewise
candidate_start_recording(candidate, self, recording_target, time_bins, log) ==
    IF candidate.class = "RandomITModel" \/ candidate.recording_ok
    THEN start_recording(self, recording_target, time_bins, log)
    ELSE [raised |-> "NotImplementedError", self |-> self,
          log |-> Append(log, Ev("start_recording", self, <<recording_target, time_bins>>,
                                 "NotImplementedError", <<>>))]

\* the value an expression has, computed once
Only(S) == CHOOSE x \in S : TRUE

\* The statements of MyBenchmark.__call__.  A frame holds the objects in reach
\* and the local variables; a statement is skipped when an exception is on its
\* way out of the call.

\* entering __call__(self, candidate)
call_enter(self, model, np, heap, log) ==
    [raised |-> NoError, self |-> self, candidate |-> model, np |-> np,
     heap |-> heap, log |-> log, result |-> <<>>, stimulus_set |-> <<>>,
     predictions |-> <<>>, assembly |-> <<>>, unceiled_score |-> <<>>,
     ceiled_score |-> <<>>]

\* candidate.start_task(task=BrainModel.Task.passive)
call_start_task(candidate, frame) ==
    Only({IF x.raised # NoError THEN x
          ELSE Only({[x EXCEPT !.raised = t.raised, !.candidate = t.self, !.log = t.log] :
                     t \in {candidate_start_task(candidate, x.candidate, "passive", x.log)}}) :
          x \in {frame}})

\* candidate.start_recording(recording_target="IT", time_bins=[np.array((100, 120))])
call_start_recording(candidate, frame) ==
    Only({IF x.raised # NoError THEN x
          ELSE Only({[x EXCEPT !.raised = r.raised, !.candidate = r.self, !.log = r.log] :
                     r \in {candidate_start_recording(candidate, x.candidate, pystr("IT"),
                                                      <<ndarray(<<100, 120>>)>>, x.log)}}) :
          x \in {frame}})

\* stimulus_set = place_on_screen(self._assembly.stimulus_set,
\*     target_visual_degrees=candidate.visual_degrees(), source_visual_degrees=8)
call_place_on_screen(frame) ==
    Only({IF x.raised # NoError THEN x
          ELSE Only({Only({[x EXCEPT !.candidate = v.self, !.log = placed.log,
                                     !.stimulus_set = placed.result] :
                           placed \in {place_on_screen(x.self._assembly.stimulus_set,
                                                       v.result, 8, v.log)}}) :
                     v \in {visual_degrees(x.candidate, x.log)}}) :
          x \in {frame}})

\* predictions = candidate.look_at(stimuli=stimulus_set)
call_look_at(frame) ==
    Only({IF x.raised # NoError THEN x
          ELSE Only({[x EXCEPT !.candidate = p.self, !.np = p.np, !.log = p.log,
                               !.predictions = p.result] :
                     p \in {look_at(x.candidate, x.stimulus_set, x.np, x.log)}}) :
          x \in {frame}})

\* the averaged assembly stored back into self._assembly
call_average_repetition_in_place(frame) ==
    Only({IF x.raised # NoError THEN x
          ELSE Only({[x EXCEPT !.assembly = a.result, !.log = a.log,
                               !.self._assembly = a.result] :
                     a \in {average_repetition(x.self._assembly, x.log)}}) :
          x \in {frame}})

\* assembly = average_repetition(self._assembly)
call_average_repetition(frame) ==
    Only({IF x.raised # NoError THEN x
          ELSE Only({[x EXCEPT !.assembly = a.result, !.log = a.log] :
                     a \in {average_repetition(x.self._assembly, x.log)}}) :
          x \in {frame}})

\* predictions = predictions.squeeze('time_bin')
call_squeeze(frame) ==
    Only({IF x.raised # NoError THEN x
          ELSE [x EXCEPT !.predictions = squeeze_recordings(x.predictions)] :
          x \in {frame}})

\* unceiled_score = self._similarity_metric(predictions, assembly)
call_similarity_metric(frame) ==
    Only({IF x.raised # NoError THEN x
          ELSE Only({[x EXCEPT !.unceiled_score = u.result, !.heap = u.heap,
                               !.log = u.log] :
                     u \in {similarity_metric(x.predictions, x.assembly, x.heap, x.log)}}) :
          x \in {frame}})

\* ceiled_score = explained_variance(unceiled_score, self.ceiling)
call_explained_variance(frame) ==
    Only({IF x.raised # NoError THEN x
          ELSE Only({Only({[x EXCEPT !.self = c.self, !.ceiled_score = e.result,
                                     !.heap = e.heap, !.log = e.log] :
                           e \in {explained_variance(x.unceiled_score, c.result,
                                                     c.heap, c.log)}}) :
                     c \in {ceiling(x.self, x.heap, x.log)}}) :
          x \in {frame}})

\* return ceiled_score, or the exception leaves the call
call_return(frame) ==
    Only({[raised |-> x.raised, self |-> x.self, candidate |-> x.candidate,
           np |-> x.np, heap |-> x.heap, log |-> x.log,
           result |-> IF x.raised # NoError THEN <<>> ELSE <<x.ceiled_score>>] :
          x \in {frame}})

\* __call__ that configures the recording before the task
call_recording_first(self, candidate, model, np, heap, log) ==
    call_return(
    call_explained_variance(
    call_similarity_metric(
    call_squeeze(
    call_average_repetition(
    call_look_at(
    call_place_on_screen(
    call_start_task(candidate,
    call_start_recording(candidate,
    call_enter(self, model, np, heap, log))))))))))

\* __call__ that shows the stimuli before it configures the recording
call_look_at_first(self, candidate, model, np, heap, log) ==
    call_return(
    call_explained_variance(
    call_similarity_metric(
    call_squeeze(
    call_average_repetition(
    call_start_recording(candidate,
    call_look_at(
    call_place_on_screen(
    call_start_task(candidate,
    call_enter(self, model, np, heap, log))))))))))

\* MyBenchmark.__call__(self, candidate); model is the candidate's state
call(self, candidate, model, np, heap, log) ==
    call_return(
    call_explained_variance(
    call_similarity_metric(
    call_squeeze(
    call_average_repetition(
    call_look_at(
    call_place_on_screen(
    call_start_recording(candidate,
    call_start_task(candidate,
    call_enter(self, model, np, heap, log))))))))))

(* ------------------------------------------------------------ the inputs *)
Images == 1..MaxImages

ObjectName(id) == IF id % 2 = 0 THEN "car" ELSE "face"

Reverse(seq) == [i \in 1..Len(seq) |-> seq[Len(seq) + 1 - i]]

Stimulus(id) == [image_id |-> id, object_name |-> ObjectName(id), degrees |-> 8]

\* a packaged assembly: each image of A was presented twice, its StimulusSet
\* holds the images of S; neither is stored in sorted order
Store(A, S) ==
    LET shown == Reverse(SortedSeq(A))
        stimuli == Reverse(SortedSeq(S))
    IN [presentation |->
            [k \in 1..(2 * Len(shown)) |->
                [image_id |-> shown[(k + 1) \div 2],
                 object_name |-> ObjectName(shown[(k + 1) \div 2]),
                 repetition |-> (k + 1) % 2]],
        time_bin |-> <<<<70, 90>>, <<100, 120>>, <<120, 140>>>>,
        dims |-> <<"presentation", "neuroid", "time_bin">>,
        stimulus_set |-> [k \in 1..Len(stimuli) |-> Stimulus(stimuli[k])]]

\* the data store may hold any of these under the benchmark's identifier
Datasets ==
    {Store(A, S) : <<A, S>> \in
        {x \in (SUBSET Images) \X (SUBSET Images) :
            x[1] # {} /\ (x[2] = x[1] \/ x[2] = Images)}}

Tasks == {"passive", "probabilities"}

RecordingTargets == {pystr("IT"), pystr("V4"), RecordingTargetClass}

Windows ==
    {ndarray(<<100, 120>>), ndarray(<<70, 170>>), ndarray(<<100>>), tuple(<<100, 120>>)}

TimeBinLists ==
    {<<>>} \cup {<<w>> : w \in Windows}
           \cup {<<ndarray(<<100, 120>>), ndarray(<<70, 170>>)>>}

Candidates ==
    {[class |-> "RandomITModel", task_ok |-> TRUE, recording_ok |-> TRUE]}
    \cup {[class |-> "BrainModel", task_ok |-> a, recording_ok |-> b] :
            a \in BOOLEAN, b \in BOOLEAN}

(* ------------------------------------------------------------- the state *)
VARIABLES
    store,            \* what the data store holds
    my_benchmark,     \* the MyBenchmark instance
    model,            \* the RandomITModel instance
    np_random,        \* numpy's process-wide generator
    heap,             \* Score objects allocated so far
    last,             \* the most recent call made from the notebook
    remembered,       \* a look_at call made before `last`, kept for comparison
    configured,       \* the window of model's last accepted start_recording
    loads,            \* get_assembly calls so far
    ceilingAccesses,  \* reads of my_benchmark.ceiling so far
    ceilerRuns        \* runs of the ceiling estimator so far

vars ==
    <<store, my_benchmark, model, np_random, heap, last, remembered, configured,
      loads, ceilingAccesses, ceilerRuns>>

Entries(log, method) == {i \in 1..Len(log) : log[i].method = method}

Count(log, method) == Cardinality(Entries(log, method))

Methods(log) == [i \in 1..Len(log) |-> log[i].method]

\* the window of the last start_recording of log that was accepted
Accepted(log, before) ==
    LET ok == {i \in Entries(log, "start_recording") : log[i].raised = NoError}
        i == CHOOSE k \in ok : \A j \in ok : j <= k
    IN IF ok = {} THEN before
       ELSE <<log[i].args[2][1].vals[1], log[i].args[2][1].vals[2]>>

\* the bookkeeping every call shares
Done(op, raised, result, log) ==
    /\ last' = [op |-> op, raised |-> raised, result |-> result, log |-> log]
    /\ loads' = loads + Count(log, "get_assembly")
    /\ ceilingAccesses' = ceilingAccesses + Count(log, "ceiling")
    /\ ceilerRuns' = ceilerRuns + Count(log, "_ceiler")
    /\ configured' = Accepted(log, configured)
    /\ \/ remembered' = remembered
       \/ \E i \in Entries(last.log, "look_at") : remembered' = <<last.log[i]>>

\* the state after my_benchmark = MyBenchmark() and model = RandomITModel()
Constructed ==
    /\ \E made \in {MyBenchmark_init(store, <<>>)} :
          /\ made.raised = NoError
          /\ my_benchmark = made.self
          /\ last = [op |-> "MyBenchmark", raised |-> NoError, result |-> <<>>,
                     log |-> made.log]
          /\ loads = Count(made.log, "get_assembly")
    /\ model = RandomITModel_init
    /\ np_random = 0
    /\ heap = 0
    /\ remembered = <<>>
    /\ configured = <<>>
    /\ ceilingAccesses = 0
    /\ ceilerRuns = 0

\* model = RandomITModel()
NewModel ==
    /\ model' = RandomITModel_init
    /\ last' = [op |-> "RandomITModel", raised |-> NoError, result |-> <<>>, log |-> <<>>]
    /\ configured' = <<>>
    /\ UNCHANGED <<store, my_benchmark, np_random, heap, remembered, loads,
                   ceilingAccesses, ceilerRuns>>

\* model.start_task(task)
StartTask ==
    \E task \in Tasks :
        \E out \in {start_task(model, task, <<>>)} :
           /\ model' = out.self
           /\ Done("start_task", out.raised, <<>>, out.log)
           /\ UNCHANGED <<store, my_benchmark, np_random, heap>>

\* model.start_recording(recording_target, time_bins)
StartRecording ==
    \E recording_target \in RecordingTargets, time_bins \in TimeBinLists :
        \E out \in {start_recording(model, recording_target, time_bins, <<>>)} :
           /\ model' = out.self
           /\ Done("start_recording", out.raised, <<>>, out.log)
           /\ UNCHANGED <<store, my_benchmark, np_random, heap>>

\* the stimulus sets the notebook may show to the model directly
StimulusSets ==
    {<<Stimulus(1)>>, <<Stimulus(2), Stimulus(1)>>, my_benchmark._assembly.stimulus_set}

\* model.look_at(stimuli)
LookAt ==
    \E stimuli \in StimulusSets :
        \E out \in {look_at(model, stimuli, np_random, <<>>)} :
           /\ model' = out.self
           /\ np_random' = out.np
           /\ Done("look_at", out.raised, <<out.result>>, out.log)
           /\ UNCHANGED <<store, my_benchmark, heap>>

\* model.visual_degrees()
VisualDegrees ==
    \E out \in {visual_degrees(model, <<>>)} :
       /\ model' = out.self
       /\ Done("visual_degrees", out.raised, <<out.result>>, out.log)
       /\ UNCHANGED <<store, my_benchmark, np_random, heap>>

\* my_benchmark(candidate), the candidate being model or a wrapper of it
Call ==
    \E candidate \in Candidates :
        \E out \in {call(my_benchmark, candidate, model, np_random, heap, <<>>)} :
           /\ out.heap <= MaxScores
           /\ my_benchmark' = out.self
           /\ model' = out.candidate
           /\ np_random' = out.np
           /\ heap' = out.heap
           /\ Done("__call__", out.raised, out.result, out.log)
           /\ UNCHANGED store

\* my_benchmark.ceiling
Ceiling ==
    \E out \in {ceiling(my_benchmark, heap, <<>>)} :
       /\ out.heap <= MaxScores
       /\ my_benchmark' = out.self
       /\ heap' = out.heap
       /\ Done("ceiling", out.raised, <<out.result>>, out.log)
       /\ UNCHANGED <<store, model, np_random>>

Next ==
    \/ NewModel
    \/ StartTask
    \/ StartRecording
    \/ LookAt
    \/ VisualDegrees
    \/ Call
    \/ Ceiling

\* the notebook's session over the packaged dataset
Init ==
    /\ store = Store(Images, Images)
    /\ Constructed

Spec == Init /\ [][Next]_vars

\* the benchmark over every dataset the store may hold
InitData ==
    /\ store \in Datasets
    /\ Constructed

NextData ==
    \/ NewModel
    \/ Call
    \/ Ceiling

SpecData == InitData /\ [][NextData]_vars


(* ------------------------------------------------------------ the claims *)
LookAts == {last.log[i] : i \in Entries(last.log, "look_at")}

IsIT(recording_target) == recording_target.type = "str" /\ recording_target.value = "IT"

\* C1: over any sequence of ceiling reads and benchmark calls the ceiling
\* estimator runs at most once, on the first read of the ceiling.
C1_CeilingMemoized ==
    /\ ceilerRuns <= 1
    /\ ceilingAccesses >= 1 => ceilerRuns = 1

\* C2: when candidate.start_task refuses the task, __call__ ends with that
\* error and nothing else was called: no start_recording, visual_degrees,
\* look_at, metric or ceiling.
C2_RejectedTaskStopsCall ==
    last.op = "__call__" =>
        \A i \in Entries(last.log, "start_task") :
            last.log[i].raised # NoError =>
                /\ last.raised = last.log[i].raised
                /\ Methods(last.log) = <<"start_task">>
                /\ last.result = <<>>

C2_Witness ==
    /\ last.op = "__call__"
    /\ last.raised = "NotImplementedError"
    /\ Len(last.log) >= 1
    /\ last.log[1].method = "start_task"
    /\ last.log[1].raised = "NotImplementedError"

C4_Original ==
    last.op = "start_task" =>
        /\ (last.raised = "UnsupportedTaskError") <=> (last.log[1].args[1] # "passive")
        /\ last.log[1].args[1] = "passive" => last.raised = NoError

\* C4 as amended: it fails with NotImplementedError exactly when the task is
\* not the passive task, and returns normally for the passive task.
C4_Amended ==
    last.op = "start_task" =>
        /\ (last.raised = "NotImplementedError") <=> (last.log[1].args[1] # "passive")
        /\ last.log[1].args[1] = "passive" => last.raised = NoError

C4_Witness ==
    /\ last.op = "start_task"
    /\ last.log[1].args[1] = "probabilities"
    /\ last.raised = "NotImplementedError"

CallSteps ==
    {"start_task", "start_recording", "visual_degrees", "look_at",
     "similarity_metric", "ceiling", "explained_variance"}

\* C5: a successful __call__ makes each of its steps once, in the order
\* start_task, start_recording, visual_degrees, look_at, similarity metric (on
\* the predictions look_at returned), ceiling, normalization of the unceiled
\* score by that ceiling, and returns the normalized score.
C5_CallOrder ==
    (last.op = "__call__" /\ last.raised = NoError) =>
        LET steps == SelectSeq(last.log, LAMBDA e : e.method \in CallSteps)
        IN /\ Methods(steps) =
                <<"start_task", "start_recording", "visual_degrees", "look_at",
                  "similarity_metric", "ceiling", "explained_variance">>
           /\ steps[5].args[1] = steps[4].result[1].image_id
           /\ \E c \in Entries(last.log, "_ceiler") :
                steps[7].args = <<steps[5].result[1].id, last.log[c].result[1].id>>
           /\ last.result = steps[7].result

C5_Witness ==
    /\ last.op = "__call__"
    /\ last.raised = NoError
    /\ Len(last.result) = 1
    /\ last.result[1].kind = "ceiled"

\* C6: once a start_recording has been accepted, every look_at result carries
\* the start and the end of the window of the most recent accepted
\* start_recording.
C6_LabeledWithConfiguredWindow ==
    configured # <<>> =>
        \A e \in LookAts :
            /\ e.result[1].time_bin_start = <<configured[1]>>
            /\ e.result[1].time_bin_end = <<configured[2]>>

C6_Witness ==
    /\ last.op = "look_at"
    /\ configured = <<70, 170>>
    /\ last.result[1].time_bin_end = <<170>>

\* C7: look_at leaves the model's configuration as it was, and a look_at with
\* the configuration and the stimuli of an earlier look_at returns the same
\* response assembly, whatever was called in between.
C7_LookAtPure ==
    \A e \in LookAts :
        /\ model = e.self
        /\ \A r \in Range(remembered) :
                (r.self = e.self /\ r.args = e.args) => r.result = e.result

C7_Witness ==
    /\ last.op = "look_at"
    /\ remembered # <<>>
    /\ remembered[1].self = last.log[1].self
    /\ remembered[1].args = last.log[1].args
    /\ remembered[1].self._time_bin_start = 100
    /\ heap > 0

\* C8: after construction no dataset is loaded and the benchmark with its
\* reference assembly and stimulus set stays as constructed, over successful
\* and failing calls and ceiling reads; the Score a successful call returns
\* did not exist before the call.
C8_ReferenceDataImmutable ==
    [][/\ loads' = loads
       /\ my_benchmark' = my_benchmark
       /\ (last'.op = "__call__" /\ last'.raised = NoError /\ heap' # heap) =>
            last'.result[1].id > heap]_vars

C8_Witness ==
    /\ last.op = "__call__"
    /\ last.raised = NoError
    /\ heap = 6
    /\ loads = 1

\* C9: the presentations kept in the reference assembly and the attached
\* stimulus set have the same image ids, which are the first SubsetSize
\* distinct ids of the loaded assembly in sorted order (all of them when there
\* are fewer), and __call__ shows the candidate exactly those ids.
C9_SameIdentifierSubset ==
    LET kept == Range(Column(my_benchmark._assembly.presentation, "image_id"))
        attached == Range(Column(my_benchmark._assembly.stimulus_set, "image_id"))
        loaded == Range(Column(store.presentation, "image_id"))
        first == {i \in loaded : Cardinality({j \in loaded : j < i}) < SubsetSize}
    IN /\ kept = attached
       /\ Cardinality(kept) <= SubsetSize
       /\ kept = first
       /\ last.op = "__call__" =>
            \A e \in LookAts : Range(Column(e.args[1], "image_id")) = kept

C9_Witness ==
    /\ last.op = "__call__"
    /\ last.raised = NoError
    /\ Cardinality(Range(Column(store.presentation, "image_id"))) > SubsetSize
    /\ Len(store.stimulus_set) > Len(my_benchmark._assembly.stimulus_set)

\* C10: a start_recording that raises leaves _time_bin_start and _time_bin_end
\* as they were, so every look_at is labeled with the window of the last
\* accepted start_recording, or with None when none was accepted yet.
C10_RejectedRecordingKeepsConfig ==
    /\ (last.op = "start_recording" /\ last.raised # NoError) =>
            model = last.log[1].self
    /\ \A e \in LookAts :
            /\ e.result[1].time_bin_start =
                    <<IF configured = <<>> THEN None ELSE configured[1]>>
            /\ e.result[1].time_bin_end =
                    <<IF configured = <<>> THEN None ELSE configured[2]>>

C10_Witness ==
    /\ last.op = "start_recording"
    /\ last.raised = "NotImplementedError"
    /\ configured = <<70, 170>>
    /\ model._time_bin_start = 70
    /\ model._time_bin_end = 170

====
